---- MODULE Spec2Model ----
(***************************************************************************)
(* Token lifecycle of fluffy/apps/oauth/views.py: login, logout and        *)
(* refresh_token, with the PyJWT calls (jwt.encode / jwt.decode), the      *)
(* json.loads call and the Django collaborators (require_POST,             *)
(* authenticate, User.objects.get) modelled by what the handlers observe   *)
(* of them.                                                                *)
(*                                                                         *)
(* Time is counted in clock ticks; there are TicksPerSecond ticks in a     *)
(* second so that the truncation of "exp" to whole seconds done by         *)
(* jwt.encode is visible.                                                  *)
(***************************************************************************)
EXTENDS Integers, Sequences, FiniteSets, TLC

VARIABLES
    now,         \* the wall clock (datetime.utcnow()), in ticks
    SECRET_KEY,  \* module global SECRET_KEY = settings.SECRET_KEY
    users,       \* the auth_user table: set of rows [id, username, password, email]
    issued,      \* tokens handed out in 200 responses so far (what clients can hold)
    last,        \* the request just handled, its response and the calls it made
    inflight     \* requests being handled by concurrent workers, each with its position

vars == <<now, SECRET_KEY, users, issued, last, inflight>>

-----------------------------------------------------------------------------
(* Bounds *)

TicksPerSecond == 2    \* clock resolution of the model
Window == 1            \* requests arrive within Window ticks of 0 and of the ttl
MaxIssued == 3         \* tokens remembered as handed out
MaxUsers == 2          \* rows of the user table
MaxInflight == 2       \* requests handled at the same time

(* Program constants *)

TTL == 3600            \* datetime.timedelta(hours=1), in seconds
EXPIRES_IN == 3600     \* "expires_in": 3600

Period == TTL * TicksPerSecond
MaxNow == Period + Window
Instants == {t \in 0..MaxNow : t <= Window \/ t >= Period - Window}

-----------------------------------------------------------------------------
(* The credential store (django.contrib.auth) *)

Usernames == {"alice", "bob"}
Passwords == {"pw1", "pw2"}
Ids == 1..MaxUsers

\* The address each person registers with.
EmailOf(username) == IF username = "alice" THEN "a@x" ELSE "b@x"

UserRows ==
    {[id |-> i, username |-> u, password |-> p, email |-> EmailOf(u)] :
        i \in Ids, u \in Usernames, p \in Passwords}

\* Tables that registration can have produced: ids 1..n in the order of
\* registration, no username shared.
UserTables ==
    {tbl \in SUBSET UserRows :
        /\ Cardinality(tbl) <= MaxUsers
        /\ {r.id : r \in tbl} = 1..Cardinality(tbl)
        /\ \A r, s \in tbl : r # s => r.id # s.id /\ r.username # s.username}

None == "None"     \* Python's None, as a field value

\* authenticate that does not compare the password.
authenticate_any_password(tbl, username, password) ==
    IF \E r \in tbl : r.username = username
    THEN [found |-> TRUE, user |-> CHOOSE r \in tbl : r.username = username]
    ELSE [found |-> FALSE]

\* authenticate(request, username=..., password=...): the user whose
\* username and password match, else None.
authenticate(tbl, username, password) ==
    IF \E r \in tbl : r.username = username /\ r.password = password
    THEN [found |-> TRUE,
          user |-> CHOOSE r \in tbl : r.username = username /\ r.password = password]
    ELSE [found |-> FALSE]

\* A lookup that takes the first row instead of the row with the id.
User_objects_first(tbl, id) ==
    IF tbl # {}
    THEN [found |-> TRUE, user |-> CHOOSE r \in tbl : \A s \in tbl : r.id <= s.id]
    ELSE [found |-> FALSE]

\* User.objects.get(id=...): the row, or User.DoesNotExist.
User_objects_get(tbl, id) ==
    IF \E r \in tbl : r.id = id
    THEN [found |-> TRUE, user |-> CHOOSE r \in tbl : r.id = id]
    ELSE [found |-> FALSE]

-----------------------------------------------------------------------------
(* PyJWT: jwt.encode and jwt.decode *)

Keys == {"k_server", "k_other"}
Algorithms == {"HS256", "HS512", "none"}

\* The MAC of a signing input (header and payload) under a key, as an
\* ideal MAC: equal only for equal key and equal input.  altered marks a
\* signature whose bytes were changed afterwards.
HMAC(key, alg, header, payload) ==
    [key |-> key, alg |-> alg, header |-> header, payload |-> payload,
     altered |-> FALSE]

\* jwt.encode(payload, key, algorithm): a datetime "exp" is converted to
\* whole seconds (timegm(exp.utctimetuple())), then header and payload are
\* signed.
jwt_encode(payload, key, algorithm) ==
    LET header == [alg |-> algorithm, typ |-> "JWT"]
        wire   == [user_id  |-> payload.user_id,
                   username |-> payload.username,
                   exp      |-> payload.exp \div TicksPerSecond]
    IN [kind |-> "jws", header |-> header, payload |-> wire,
        signature |-> HMAC(key, algorithm, header, wire)]

\* Things a client can send that are not a three-segment token.
NoToken == [kind |-> "absent"]        \* the field is missing: data.get gives None
Garbage == [kind |-> "garbage"]       \* a string that is not a JWS

\* jwt.decode that takes the algorithm from the header of the token and
\* does not compare it with the algorithms asked for.
jwt_decode_any_algorithm(token, key, algorithms, t) ==
    IF token.kind # "jws"
    THEN [ok |-> FALSE, exc |-> "DecodeError"]
    ELSE IF token.header.alg # "none" /\
            token.signature # [key |-> key, alg |-> token.header.alg,
                               header |-> token.header, payload |-> token.payload,
                               altered |-> FALSE]
    THEN [ok |-> FALSE, exc |-> "InvalidSignatureError"]
    ELSE IF token.payload.exp * TicksPerSecond <= t
    THEN [ok |-> FALSE, exc |-> "ExpiredSignatureError"]
    ELSE [ok |-> TRUE, payload |-> token.payload]

\* jwt.decode that still accepts a token at the instant of its "exp".
jwt_decode_exp_inclusive(token, key, algorithms, t) ==
    IF token.kind # "jws"
    THEN [ok |-> FALSE, exc |-> "DecodeError"]
    ELSE IF token.header.alg \notin algorithms
    THEN [ok |-> FALSE, exc |-> "InvalidAlgorithmError"]
    ELSE IF token.signature # [key |-> key, alg |-> token.header.alg,
                               header |-> token.header, payload |-> token.payload,
                               altered |-> FALSE]
    THEN [ok |-> FALSE, exc |-> "InvalidSignatureError"]
    ELSE IF token.payload.exp * TicksPerSecond < t
    THEN [ok |-> FALSE, exc |-> "ExpiredSignatureError"]
    ELSE [ok |-> TRUE, payload |-> token.payload]

\* jwt.decode with verify_exp off: "exp" is not looked at.
jwt_decode_no_exp(token, key, algorithms, t) ==
    IF token.kind # "jws"
    THEN [ok |-> FALSE, exc |-> "DecodeError"]
    ELSE IF token.header.alg \notin algorithms
    THEN [ok |-> FALSE, exc |-> "InvalidAlgorithmError"]
    ELSE IF token.signature # [key |-> key, alg |-> token.header.alg,
                               header |-> token.header, payload |-> token.payload,
                               altered |-> FALSE]
    THEN [ok |-> FALSE, exc |-> "InvalidSignatureError"]
    ELSE [ok |-> TRUE, payload |-> token.payload]

\* jwt.decode that looks at "exp" before it verifies the signature.
jwt_decode_exp_first(token, key, algorithms, t) ==
    IF token.kind # "jws"
    THEN [ok |-> FALSE, exc |-> "DecodeError"]
    ELSE IF token.payload.exp * TicksPerSecond <= t
    THEN [ok |-> FALSE, exc |-> "ExpiredSignatureError"]
    ELSE IF token.header.alg \notin algorithms
    THEN [ok |-> FALSE, exc |-> "InvalidAlgorithmError"]
    ELSE IF token.signature # [key |-> key, alg |-> token.header.alg,
                               header |-> token.header, payload |-> token.payload,
                               altered |-> FALSE]
    THEN [ok |-> FALSE, exc |-> "InvalidSignatureError"]
    ELSE [ok |-> TRUE, payload |-> token.payload]

\* jwt.decode(token, key, algorithms=[...]) at clock reading t:
\* structure, then algorithm, then signature, then "exp".
jwt_decode(token, key, algorithms, t) ==
    IF token.kind # "jws"
    THEN [ok |-> FALSE, exc |-> "DecodeError"]
    ELSE IF token.header.alg \notin algorithms
    THEN [ok |-> FALSE, exc |-> "InvalidAlgorithmError"]
    ELSE IF token.signature # HMAC(key, token.header.alg, token.header, token.payload)
    THEN [ok |-> FALSE, exc |-> "InvalidSignatureError"]
    ELSE IF token.payload.exp * TicksPerSecond <= t
    THEN [ok |-> FALSE, exc |-> "ExpiredSignatureError"]
    ELSE [ok |-> TRUE, payload |-> token.payload]

\* generate_jwt with timedelta(minutes=1) for timedelta(hours=1).
generate_jwt_one_minute(user, key, t) ==
    jwt_encode([user_id  |-> user.id,
                username |-> user.username,
                exp      |-> t + 60 * TicksPerSecond],
               key, "HS256")

\* generate_jwt without the timedelta: "exp" is the time of issue.
generate_jwt_no_ttl(user, key, t) ==
    jwt_encode([user_id |-> user.id, username |-> user.username, exp |-> t],
               key, "HS256")

\* generate_jwt(user) at clock reading t.
generate_jwt(user, key, t) ==
    jwt_encode([user_id  |-> user.id,
                username |-> user.username,
                exp      |-> t + TTL * TicksPerSecond],
               key, "HS256")

-----------------------------------------------------------------------------
(* Responses *)

JsonResponse(body, status) == [status |-> status, body |-> body]

\* An exception no handler catches: Django answers 500.
ServerError(exc) == [status |-> 500, body |-> [exception |-> exc]]

\* require_POST: any other method is answered 405 before the view runs.
NotAllowed == [status |-> 405, body |-> [allow |-> "POST"]]

Methods == {"POST", "GET"}

\* The requests with a body of the set B: the view never reads the body of
\* a request that is not a POST, so one body stands for all of them.
Requests(B) ==
    {[method |-> "POST", body |-> b] : b \in B}
    \cup {[method |-> "GET", body |-> [kind |-> "malformed"]]}

-----------------------------------------------------------------------------
(* Request bodies and json.loads *)

BadUtf8 == [kind |-> "badutf8"]         \* bytes that are not UTF-8 text
MalformedJson == [kind |-> "malformed"] \* text that is not JSON (the empty body too)
NonObject == [kind |-> "nonobject"]     \* a JSON array, string, number or null

\* A JSON object: its members, as a function from the keys present.
JsonObject(members) == [kind |-> "object", members |-> members]

UnparsedBodies == {BadUtf8, MalformedJson, NonObject}

\* A parser that gives None for text that is not JSON instead of raising.
json_loads_lenient(body) ==
    CASE body.kind = "badutf8"   -> [exc |-> "UnicodeDecodeError"]
      [] body.kind = "malformed" -> [exc |-> "", isdict |-> FALSE]
      [] body.kind = "nonobject" -> [exc |-> "", isdict |-> FALSE]
      [] body.kind = "object"    -> [exc |-> "", isdict |-> TRUE, dict |-> body.members]

\* json.loads(request.body): JSONDecodeError for text that is not JSON,
\* UnicodeDecodeError for bytes that are not text, else the Python value.
json_loads(body) ==
    CASE body.kind = "badutf8"   -> [exc |-> "UnicodeDecodeError"]
      [] body.kind = "malformed" -> [exc |-> "JSONDecodeError"]
      [] body.kind = "nonobject" -> [exc |-> "", isdict |-> FALSE]
      [] body.kind = "object"    -> [exc |-> "", isdict |-> TRUE, dict |-> body.members]

\* dict.get(key): the member, or None when the key is absent.
dict_get(d, key, none) == IF key \in DOMAIN d THEN d[key] ELSE none

\* {"username": u, "password": p}, a member left out when it is None.
LoginObject(u, p) ==
    JsonObject([k \in {x \in {"username", "password"} :
                          (x = "username" /\ u # None) \/ (x = "password" /\ p # None)}
                   |-> IF k = "username" THEN u ELSE p])

LoginBodies ==
    UnparsedBodies \cup
    {LoginObject(u, p) : u \in Usernames \cup {None}, p \in Passwords \cup {None}}

\* {"refresh_token": t}, or {} when t is the missing token.
RefreshObject(t) ==
    JsonObject([k \in {x \in {"refresh_token"} : t # NoToken} |-> t])

-----------------------------------------------------------------------------
(* What a client can do to a token it holds, and forge without the key *)

AlterSignature(t) == [t EXCEPT !.signature.altered = TRUE]
AlterExp(t) == [t EXCEPT !.payload.exp = @ + TTL]
Resign(t, key) ==
    [t EXCEPT !.signature = HMAC(key, t.header.alg, t.header, t.payload)]
WithAlg(t, alg) == [t EXCEPT !.header.alg = alg]

\* The last one is a token of another issuer that shares the key and signs
\* with another algorithm.
Tampered(t) ==
    {AlterSignature(t), AlterExp(t), Resign(t, "k_other"),
     WithAlg(t, "none"), Resign(WithAlg(t, "HS512"), "k_server")}

\* Tokens made from nothing with a key that is not the server's, one already
\* expired and one not, for every user of the table.
Forged(tbl, t) ==
    {generate_jwt(u, "k_other", t) : u \in tbl}
    \cup {jwt_encode([user_id |-> u.id, username |-> u.username, exp |-> 0],
                     "k_other", "HS256") : u \in tbl}

Presentable ==
    issued \cup UNION {Tampered(t) : t \in issued} \cup Forged(users, now)
    \cup {Garbage, NoToken}

RefreshBodies == UnparsedBodies \cup {RefreshObject(t) : t \in Presentable}

\* Logout is sent anything: no body worth the name, no token, a token held.
LogoutBodies ==
    UnparsedBodies \cup {RefreshObject(t) : t \in issued \cup {Garbage, NoToken}}

-----------------------------------------------------------------------------
(* The views.  Each gives the response, the calls made on the way and the  *)
(* tokens minted.  t1 and t2 are the clock readings of the handler, in     *)
(* order.                                                                  *)

Outcome(resp, calls, minted) == [resp |-> resp, calls |-> calls, minted |-> minted]

\* login(request): access and refresh token are two generate_jwt calls.
login_view(method, body, tbl, key, t1, t2) ==
    IF method # "POST" THEN Outcome(NotAllowed, <<>>, {})
    ELSE LET data == json_loads(body) IN
    IF data.exc = "JSONDecodeError"
    THEN Outcome(JsonResponse([error |-> "Invalid JSON"], 400), <<"json.loads">>, {})
    ELSE IF data.exc # ""
    THEN Outcome(ServerError(data.exc), <<"json.loads">>, {})
    ELSE IF ~data.isdict
    THEN Outcome(ServerError("AttributeError"), <<"json.loads">>, {})
    ELSE LET username == dict_get(data.dict, "username", None)
             password == dict_get(data.dict, "password", None)
             auth     == authenticate(tbl, username, password)
         IN IF auth.found
            THEN LET access_token  == generate_jwt(auth.user, key, t1)
                     refresh_token == generate_jwt(auth.user, key, t2)
                 IN Outcome(JsonResponse([access_token  |-> access_token,
                                          refresh_token |-> refresh_token,
                                          token_type    |-> "bearer",
                                          expires_in    |-> EXPIRES_IN], 200),
                            <<"json.loads", "authenticate", "generate_jwt", "generate_jwt">>,
                            {access_token, refresh_token})
            ELSE Outcome(JsonResponse([error   |-> "Unauthorized",
                                       message |-> "Invalid credentials."], 401),
                         <<"json.loads", "authenticate">>, {})

\* A logout that parses its body as login and refresh_token do.
logout_view_parsing(method, body) ==
    IF method # "POST" THEN [resp |-> NotAllowed, calls |-> <<>>, minted |-> {}]
    ELSE IF body.kind \in {"malformed", "badutf8", "nonobject"}
    THEN [resp |-> [status |-> 400, body |-> [error |-> "Invalid JSON"]],
          calls |-> <<"json.loads">>, minted |-> {}]
    ELSE [resp |-> [status |-> 200, body |-> [message |-> "Logged out successfully."]],
          calls |-> <<"json.loads">>, minted |-> {}]

\* logout(request)
logout_view(method, body) ==
    IF method # "POST" THEN Outcome(NotAllowed, <<>>, {})
    ELSE Outcome(JsonResponse([message |-> "Logged out successfully."], 200), <<>>, {})

\* The except clauses answering with the category alone, as the 400 does.
refresh_except_no_message(exc) ==
    IF exc \in {"ExpiredSignatureError", "DecodeError",
                "InvalidAlgorithmError", "InvalidSignatureError"}
    THEN [status |-> 401, body |-> [error |-> "Unauthorized"]]
    ELSE [status |-> 500, body |-> [exception |-> exc]]

\* The except clauses in the other order: InvalidTokenError, the base class
\* of ExpiredSignatureError, catches everything.
refresh_except_base_first(exc) ==
    IF exc \in {"ExpiredSignatureError", "DecodeError",
                "InvalidAlgorithmError", "InvalidSignatureError"}
    THEN [status |-> 401, body |-> [error   |-> "Unauthorized",
                                    message |-> "Invalid refresh token."]]
    ELSE [status |-> 500, body |-> [exception |-> exc]]

\* The except clauses around jwt.decode, in their order.
refresh_except(exc) ==
    IF exc = "ExpiredSignatureError"
    THEN JsonResponse([error   |-> "Unauthorized",
                       message |-> "Refresh token has expired."], 401)
    ELSE IF exc \in {"ExpiredSignatureError", "DecodeError",
                     "InvalidAlgorithmError", "InvalidSignatureError"}
    THEN JsonResponse([error   |-> "Unauthorized",
                       message |-> "Invalid refresh token."], 401)
    ELSE ServerError(exc)

\* A refresh that gives the new token the expiry of the token presented.
refresh_token_view_keep_exp(method, body, tbl, key, t1, t2) ==
    IF method # "POST" THEN [resp |-> NotAllowed, calls |-> <<>>, minted |-> {}]
    ELSE LET data == json_loads(body) IN
    IF data.exc = "JSONDecodeError"
    THEN [resp |-> [status |-> 400, body |-> [error |-> "Invalid JSON"]],
          calls |-> <<"json.loads">>, minted |-> {}]
    ELSE IF data.exc # ""
    THEN [resp |-> ServerError(data.exc), calls |-> <<"json.loads">>, minted |-> {}]
    ELSE IF ~data.isdict
    THEN [resp |-> ServerError("AttributeError"), calls |-> <<"json.loads">>,
          minted |-> {}]
    ELSE LET refresh_token == dict_get(data.dict, "refresh_token", NoToken)
             decoded       == jwt_decode(refresh_token, key, {"HS256"}, t1)
         IN IF ~decoded.ok
            THEN [resp |-> refresh_except(decoded.exc),
                  calls |-> <<"json.loads", "jwt.decode">>, minted |-> {}]
            ELSE LET got == User_objects_get(tbl, decoded.payload.user_id) IN
                 IF ~got.found
                 THEN [resp |-> ServerError("DoesNotExist"),
                       calls |-> <<"json.loads", "jwt.decode", "User.objects.get">>,
                       minted |-> {}]
                 ELSE LET new_access_token ==
                              jwt_encode([user_id  |-> got.user.id,
                                          username |-> got.user.username,
                                          exp      |-> decoded.payload.exp * TicksPerSecond],
                                         key, "HS256")
                      IN [resp |-> [status |-> 200,
                                    body |-> [access_token |-> new_access_token,
                                              token_type   |-> "bearer",
                                              expires_in   |-> EXPIRES_IN]],
                          calls |-> <<"json.loads", "jwt.decode", "User.objects.get",
                                      "generate_jwt">>,
                          minted |-> {new_access_token}]

\* refresh_token(request)
refresh_token_view(method, body, tbl, key, t1, t2) ==
    IF method # "POST" THEN Outcome(NotAllowed, <<>>, {})
    ELSE LET data == json_loads(body) IN
    IF data.exc = "JSONDecodeError"
    THEN Outcome(JsonResponse([error |-> "Invalid JSON"], 400), <<"json.loads">>, {})
    ELSE IF data.exc # ""
    THEN Outcome(ServerError(data.exc), <<"json.loads">>, {})
    ELSE IF ~data.isdict
    THEN Outcome(ServerError("AttributeError"), <<"json.loads">>, {})
    ELSE LET refresh_token == dict_get(data.dict, "refresh_token", NoToken)
             decoded       == jwt_decode(refresh_token, key, {"HS256"}, t1)
         IN IF ~decoded.ok
            THEN Outcome(refresh_except(decoded.exc), <<"json.loads", "jwt.decode">>, {})
            ELSE LET got == User_objects_get(tbl, decoded.payload.user_id) IN
                 IF ~got.found
                 THEN Outcome(ServerError("DoesNotExist"),
                              <<"json.loads", "jwt.decode", "User.objects.get">>, {})
                 ELSE LET new_access_token == generate_jwt(got.user, key, t2)
                      IN Outcome(JsonResponse([access_token |-> new_access_token,
                                               token_type   |-> "bearer",
                                               expires_in   |-> EXPIRES_IN], 200),
                                 <<"json.loads", "jwt.decode", "User.objects.get",
                                   "generate_jwt">>,
                                 {new_access_token})

-----------------------------------------------------------------------------
(* The state machine *)

\* What is recorded of a request: the view, the request, the clock at its
\* first and at its last reading, the response, the calls, the tokens minted.
Handled(op, method, body, t1, t2, out) ==
    [op |-> op, method |-> method, body |-> body, at |-> t1, end |-> t2,
     resp |-> out.resp, calls |-> out.calls, minted |-> out.minted]

\* No request is being handled.
Idle == Handled("none", "GET", MalformedJson, 0, 0, Outcome(NotAllowed, <<>>, {}))

Init ==
    /\ now = 0
    /\ SECRET_KEY = "k_server"
    /\ users \in UserTables
    /\ issued = {}
    /\ last = Idle
    /\ inflight = {}

\* Time passes with no request being handled.
Tick ==
    /\ \E t \in Instants : t > now /\ now' = t
    /\ last' = Idle
    /\ UNCHANGED <<SECRET_KEY, users, issued, inflight>>

\* A request to /token/; d ticks pass between its two clock readings, when
\* it gets as far as the second.
login ==
    \E r \in Requests(LoginBodies), d \in 0..1 :
        LET out == login_view(r.method, r.body, users, SECRET_KEY, now, now + d) IN
        /\ now + d \in Instants
        /\ d = 0 \/ out.minted # {}
        /\ Cardinality(issued \cup out.minted) <= MaxIssued
        /\ now' = now + d
        /\ issued' = issued \cup out.minted
        /\ last' = Handled("login", r.method, r.body, now, now + d, out)
        /\ UNCHANGED <<SECRET_KEY, users, inflight>>

\* A logout that revokes: the signing key is replaced, so that what was
\* signed before no longer verifies.
logout_revoking ==
    \E r \in Requests(LogoutBodies) :
        LET out == logout_view(r.method, r.body) IN
        /\ last' = Handled("logout", r.method, r.body, now, now, out)
        /\ SECRET_KEY' = IF r.method = "POST" THEN "k_other" ELSE SECRET_KEY
        /\ UNCHANGED <<now, users, issued, inflight>>

\* A request to /logout/.
logout ==
    \E r \in Requests(LogoutBodies) :
        LET out == logout_view(r.method, r.body) IN
        /\ last' = Handled("logout", r.method, r.body, now, now, out)
        /\ UNCHANGED <<now, SECRET_KEY, users, issued, inflight>>

\* A request to /jwt/refresh/; jwt.decode reads the clock, generate_jwt,
\* when the request gets that far, reads it d ticks later.
refresh_token ==
    \E r \in Requests(RefreshBodies), d \in 0..1 :
        LET out == refresh_token_view(r.method, r.body, users, SECRET_KEY, now, now + d) IN
        /\ now + d \in Instants
        /\ d = 0 \/ out.minted # {}
        /\ Cardinality(issued \cup out.minted) <= MaxIssued
        /\ now' = now + d
        /\ issued' = issued \cup out.minted
        /\ last' = Handled("refresh_token", r.method, r.body, now, now + d, out)
        /\ UNCHANGED <<SECRET_KEY, users, inflight>>

Next == Tick \/ login \/ logout \/ refresh_token

Spec == Init /\ [][Next]_vars

-----------------------------------------------------------------------------
(* Properties.  They read the request handled last and its response.       *)

PostTo(op) == last.op = op /\ last.method = "POST"

\* The refresh_token member of the body handled last.
Presented == dict_get(last.body.members, "refresh_token", NoToken)

\* A refresh request that reached jwt.decode with a three-segment token.
RefreshOfJws ==
    /\ PostTo("refresh_token")
    /\ last.body.kind = "object"
    /\ Presented.kind = "jws"

\* The signature of t is the MAC, under key, of the header and payload t
\* carries, and nothing was changed since.
SignedBy(t, key) ==
    /\ t.signature.key = key
    /\ ~t.signature.altered
    /\ t.signature.header = t.header
    /\ t.signature.payload = t.payload
    /\ t.signature.alg = t.header.alg

\* t was signed with another key, or its payload or signature was altered
\* after signing.
BadSignature(t) ==
    \/ t.signature.key # "k_server"
    \/ t.signature.altered
    \/ t.signature.payload # t.payload

ExpiryPassed(t, at) == t.payload.exp * TicksPerSecond < at

InvalidRefreshToken ==
    [status |-> 401,
     body |-> [error |-> "Unauthorized", message |-> "Invalid refresh token."]]

RefreshTokenExpired ==
    [status |-> 401,
     body |-> [error |-> "Unauthorized", message |-> "Refresh token has expired."]]

\* C1: a token signed with a different key, or altered in payload or
\* signature, presented to Refresh is answered 401 "Invalid refresh token."
\* whether or not its expiry has passed, and never 200 with a new token.
C1_BadSignatureIsInvalid ==
    (RefreshOfJws /\ BadSignature(Presented)) =>
        /\ last.resp = InvalidRefreshToken
        /\ last.resp.status # 200
        /\ last.minted = {}

\* C1 happens: a token whose signature bytes were altered and whose expiry
\* has passed was presented and answered.
C1_Witness ==
    /\ RefreshOfJws
    /\ Presented.signature.altered
    /\ Presented.signature.key = "k_server"
    /\ ExpiryPassed(Presented, last.at)
    /\ last.resp.status = 401

\* C2 as stated: every token whose expiry is in the past at verification
\* time fails as ExpiredSignature, never as InvalidToken.
C2_Original ==
    (RefreshOfJws /\ ExpiryPassed(Presented, last.at)) =>
        last.resp = RefreshTokenExpired

\* C2 amended: every token signed by the server (HS256, the secret key,
\* nothing altered) whose expiry is in the past at verification time fails
\* as ExpiredSignature, never as InvalidToken.
C2_SignedExpiredIsExpired ==
    (/\ RefreshOfJws
     /\ SignedBy(Presented, "k_server")
     /\ Presented.header.alg = "HS256"
     /\ ExpiryPassed(Presented, last.at)) =>
        /\ last.resp = RefreshTokenExpired
        /\ last.resp # InvalidRefreshToken

\* C2 happens: a token the server issued was presented after its expiry.
C2_Witness ==
    /\ RefreshOfJws
    /\ Presented \in issued
    /\ ExpiryPassed(Presented, last.at)
    /\ last.resp.status = 401

\* The claims a token decodes to when read at clock reading t.
Decode(t, at) == jwt_decode(t, SECRET_KEY, {"HS256"}, at)

\* A login that was answered 200, the row whose credentials it presented
\* and the two tokens of its response.
LoginOK == PostTo("login") /\ last.resp.status = 200
Given(field) == dict_get(last.body.members, field, None)
LoginUser == CHOOSE r \in users : r.username = Given("username")

\* The claims read from token tok issued at clock reading t0 to identity u,
\* at every instant before the expiry that issue at t0 should give, are u's
\* id, u's username and the expiry exp.
RoundTrip(tok, u, t0, exp) ==
    \A t \in Instants : (t0 <= t /\ t < t0 + TTL * TicksPerSecond) =>
        /\ Decode(tok, t).ok
        /\ Decode(tok, t).payload.user_id = u.id
        /\ Decode(tok, t).payload.username = u.username
        /\ Decode(tok, t).payload.exp * TicksPerSecond = exp

\* C3 as stated: decoding an issued token before it expires gives the
\* identity's id and username and expires_at = issuance time + ttl.
C3_Original ==
    LoginOK =>
        /\ RoundTrip(last.resp.body.access_token, LoginUser, last.at,
                     last.at + TTL * TicksPerSecond)
        /\ RoundTrip(last.resp.body.refresh_token, LoginUser, last.end,
                     last.end + TTL * TicksPerSecond)

\* The clock reading t cut to whole seconds, in ticks.
WholeSeconds(t) == (t \div TicksPerSecond) * TicksPerSecond

\* The claims read from tok issued at t0 to u, at every instant before its
\* expiry, are u's id, u's username and t0 cut to whole seconds plus the ttl.
RoundTripTruncated(tok, u, t0) ==
    \A t \in Instants : (t0 <= t /\ t < WholeSeconds(t0) + TTL * TicksPerSecond) =>
        /\ Decode(tok, t).ok
        /\ Decode(tok, t).payload.user_id = u.id
        /\ Decode(tok, t).payload.username = u.username
        /\ Decode(tok, t).payload.exp = (t0 \div TicksPerSecond) + TTL

\* C3 amended: decoding an issued token with the same key before it expires
\* gives the identity's id and username, and expires_at = the issuance time
\* cut to whole seconds plus the ttl of 3600 s (less than one second short
\* of issuance time + ttl).
C3_RoundTrip ==
    /\ LoginOK =>
        /\ RoundTripTruncated(last.resp.body.access_token, LoginUser, last.at)
        /\ RoundTripTruncated(last.resp.body.refresh_token, LoginUser, last.end)
    /\ (PostTo("refresh_token") /\ last.resp.status = 200) =>
        \E u \in users :
            /\ u.id = Presented.payload.user_id
            /\ RoundTripTruncated(last.resp.body.access_token, u, last.end)

\* C3 happens: a token was issued between two whole seconds and can be read
\* back at a later instant.
C3_Witness ==
    /\ LoginOK
    /\ last.at % TicksPerSecond # 0
    /\ \E t \in Instants : t > last.end /\ Decode(last.resp.body.access_token, t).ok

-----------------------------------------------------------------------------

\* A login whose body is a JSON object, and whether a row has the username
\* and password it gives.
LoginOfObject == PostTo("login") /\ last.body.kind = "object"
CredentialsMatch ==
    \E r \in users : r.username = Given("username") /\ r.password = Given("password")

InvalidCredentials ==
    [status |-> 401,
     body |-> [error |-> "Unauthorized", message |-> "Invalid credentials."]]

\* C4: login with correct credentials returns 200 with access_token and
\* refresh_token, both decodable, token_type "bearer" and expires_in 3600;
\* login with a wrong password and login with an unknown username return
\* the same 401 response, and no token is issued.
C4_Login ==
    LoginOfObject =>
        IF CredentialsMatch
        THEN /\ last.resp.status = 200
             /\ DOMAIN last.resp.body =
                    {"access_token", "refresh_token", "token_type", "expires_in"}
             /\ last.resp.body.token_type = "bearer"
             /\ last.resp.body.expires_in = 3600
             /\ Decode(last.resp.body.access_token, last.end).ok
             /\ Decode(last.resp.body.refresh_token, last.end).ok
        ELSE /\ last.resp = InvalidCredentials
             /\ last.minted = {}
             /\ \A i \in 1..Len(last.calls) : last.calls[i] # "generate_jwt"

\* C4 happens: a login gave the username of a row and another password.
C4_Witness ==
    /\ LoginOfObject
    /\ \E r \in users :
          /\ r.username = Given("username")
          /\ Given("password") \in Passwords
          /\ r.password # Given("password")
    /\ last.resp.status = 401

-----------------------------------------------------------------------------

\* A refresh that presented a token which verifies: signed by the server
\* with HS256, nothing altered, expiry after the clock reading of jwt.decode.
RefreshOfValid ==
    /\ RefreshOfJws
    /\ SignedBy(Presented, "k_server")
    /\ Presented.header.alg = "HS256"
    /\ Presented.payload.exp * TicksPerSecond > last.at

Called(name) == \E i \in 1..Len(last.calls) : last.calls[i] = name

\* C5: for every token that passes verification, Refresh looks the identity
\* up by claims.user_id and returns 200 with exactly access_token,
\* token_type "bearer" and expires_in 3600; the access token is new, is for
\* that identity, and no refresh_token is returned.
C5_RefreshIssues ==
    RefreshOfValid =>
        /\ last.resp.status = 200
        /\ DOMAIN last.resp.body = {"access_token", "token_type", "expires_in"}
        /\ last.resp.body.token_type = "bearer"
        /\ last.resp.body.expires_in = 3600
        /\ Called("User.objects.get")
        /\ last.minted = {last.resp.body.access_token}
        /\ SignedBy(last.resp.body.access_token, "k_server")
        /\ last.resp.body.access_token.payload.user_id = Presented.payload.user_id
        /\ \E u \in users :
              /\ u.id = Presented.payload.user_id
              /\ u.username = last.resp.body.access_token.payload.username
        /\ last.resp.body.access_token.payload.exp =
              (last.end \div TicksPerSecond) + TTL

\* C5 happens: a token of the second user of the table passed verification
\* and was answered.
C5_Witness ==
    /\ RefreshOfValid
    /\ Presented \in issued
    /\ Presented.payload.user_id = 2
    /\ last.resp.status = 200

-----------------------------------------------------------------------------

\* C6: Refresh answers an expired token with 401 and the message "Refresh
\* token has expired.", garbage with 401 and the message "Invalid refresh
\* token."; in both cases no identity is looked up and no token is issued.
C6_RefreshFailures ==
    /\ (/\ RefreshOfJws
        /\ SignedBy(Presented, "k_server")
        /\ Presented.header.alg = "HS256"
        /\ ExpiryPassed(Presented, last.at)) =>
            /\ last.resp = RefreshTokenExpired
            /\ ~Called("User.objects.get")
            /\ ~Called("generate_jwt")
            /\ last.minted = {}
    /\ (/\ PostTo("refresh_token")
        /\ last.body.kind = "object"
        /\ Presented = Garbage) =>
            /\ last.resp = InvalidRefreshToken
            /\ ~Called("User.objects.get")
            /\ ~Called("generate_jwt")
            /\ last.minted = {}

\* C6 happens: garbage was presented to Refresh after a token had been
\* issued.
C6_Witness ==
    /\ PostTo("refresh_token")
    /\ last.body.kind = "object"
    /\ Presented = Garbage
    /\ issued # {}
    /\ last.resp.status = 401

-----------------------------------------------------------------------------

InvalidJson == [status |-> 400, body |-> [error |-> "Invalid JSON"]]

-----------------------------------------------------------------------------

\* The body handled last has the shape the view expects.
ExpectedShape ==
    /\ last.body.kind = "object"
    /\ last.op = "login" => {"username", "password"} \subseteq DOMAIN last.body.members
    /\ last.op = "refresh_token" => "refresh_token" \in DOMAIN last.body.members

\* C8: every body sent to Login or Refresh that does not parse as the
\* expected shape (JSON that is not an object, an object without the
\* required fields) is answered 400.
C8_Claim ==
    ((PostTo("login") \/ PostTo("refresh_token")) /\ ~ExpectedShape) =>
        last.resp.status = 400

-----------------------------------------------------------------------------

LoggedOut == [status |-> 200, body |-> [message |-> "Logged out successfully."]]

\* C9: every POST to Logout is answered 200 {"message": "Logged out
\* successfully."}, whatever the body and whether or not a token is in it.
C9_LogoutAlways200 ==
    PostTo("logout") => last.resp = LoggedOut

\* C9 happens: Logout was sent bytes that are not even text.
C9_Witness ==
    /\ PostTo("logout")
    /\ last.body = BadUtf8
    /\ last.resp.status = 200

-----------------------------------------------------------------------------

\* Refresh, asked now, would answer token t with 200.
Accepts(t) ==
    refresh_token_view("POST", RefreshObject(t), users, SECRET_KEY, now, now).resp.status
        = 200

\* C10: whatever requests came before (logouts with the token included),
\* every token handed out is accepted by Refresh at every time before its
\* expiry, and Refresh accepts a token exactly when it carries the server's
\* HS256 signature and its expiry is still ahead.
C10_LogoutInvalidatesNothing ==
    /\ \A t \in issued : t.payload.exp * TicksPerSecond > now => Accepts(t)
    /\ \A t \in Presentable :
          Accepts(t) <=> /\ t.kind = "jws"
                         /\ SignedBy(t, "k_server")
                         /\ t.header.alg = "HS256"
                         /\ t.payload.exp * TicksPerSecond > now

\* C10 happens: Logout was just sent a token that was handed out and has
\* not expired, and Refresh would still accept it.
C10_Witness ==
    /\ PostTo("logout")
    /\ last.body.kind = "object"
    /\ Presented \in issued
    /\ Presented.payload.exp * TicksPerSecond > now
    /\ Accepts(Presented)

-----------------------------------------------------------------------------

\* An error response of Login or Refresh: a 400 or a 401.
ErrorResponse ==
    /\ PostTo("login") \/ PostTo("refresh_token")
    /\ last.resp.status \in {400, 401}

\* C11 as stated: every 400 and every 401 of Login and Refresh carries both
\* an error field and a message field.
C11_Original ==
    ErrorResponse => {"error", "message"} \subseteq DOMAIN last.resp.body

\* C11 amended: every 401 of Login and Refresh carries both the error
\* category "Unauthorized" and a message; every 400 carries the error
\* category "Invalid JSON" and no message.
C11_ErrorShape ==
    ErrorResponse =>
        IF last.resp.status = 401
        THEN /\ DOMAIN last.resp.body = {"error", "message"}
             /\ last.resp.body.error = "Unauthorized"
             /\ last.resp.body.message \in
                    {"Invalid credentials.", "Refresh token has expired.",
                     "Invalid refresh token."}
        ELSE /\ DOMAIN last.resp.body = {"error"}
             /\ last.resp.body.error = "Invalid JSON"

\* C11 happens: Refresh answered 401 to a body without a refresh_token.
C11_Witness ==
    /\ PostTo("refresh_token")
    /\ last.body.kind = "object"
    /\ Presented = NoToken
    /\ last.resp.status = 401

-----------------------------------------------------------------------------

\* The time token tok has to live when issued at clock reading t0, in ticks.
Lifetime(tok, t0) == tok.payload.exp * TicksPerSecond - t0

RefreshOK == PostTo("refresh_token") /\ last.resp.status = 200

\* C12 as stated: every token issued by Login or Refresh expires strictly
\* after its issue, at exactly issue time + 3600 s, the expires_in of the
\* same response; the two tokens of one Login have the same lifetime.
C12_Original ==
    /\ LoginOK =>
        /\ Lifetime(last.resp.body.access_token, last.at) = last.resp.body.expires_in * TicksPerSecond
        /\ Lifetime(last.resp.body.refresh_token, last.end) = last.resp.body.expires_in * TicksPerSecond
        /\ Lifetime(last.resp.body.access_token, last.at) =
              Lifetime(last.resp.body.refresh_token, last.end)
        /\ last.resp.body.expires_in = 3600
    /\ RefreshOK =>
        /\ Lifetime(last.resp.body.access_token, last.end) = last.resp.body.expires_in * TicksPerSecond
        /\ last.resp.body.expires_in = 3600

\* tok, issued at t0 in a response that reports expires_in, expires after
\* t0, at t0 cut to whole seconds plus 3600 s: it lives more than
\* expires_in - 1 and at most expires_in seconds.
IssuedWithTTL(tok, t0, expires_in) ==
    /\ Lifetime(tok, t0) > 0
    /\ tok.payload.exp = (t0 \div TicksPerSecond) + 3600
    /\ Lifetime(tok, t0) > (expires_in - 1) * TicksPerSecond
    /\ Lifetime(tok, t0) <= expires_in * TicksPerSecond

\* C12 amended: every token issued by Login or Refresh expires strictly
\* after its issue, at issue time cut to whole seconds + 3600 s, so that it
\* lives at most the 3600 s reported as expires_in and less than a second
\* short of it; the two tokens of one Login get the same ttl, and their
\* lifetimes differ by less than a second.
C12_IssuedLifetime ==
    /\ LoginOK =>
        /\ last.resp.body.expires_in = 3600
        /\ IssuedWithTTL(last.resp.body.access_token, last.at, last.resp.body.expires_in)
        /\ IssuedWithTTL(last.resp.body.refresh_token, last.end, last.resp.body.expires_in)
        /\ Lifetime(last.resp.body.access_token, last.at)
             - Lifetime(last.resp.body.refresh_token, last.end) < TicksPerSecond
        /\ Lifetime(last.resp.body.refresh_token, last.end)
             - Lifetime(last.resp.body.access_token, last.at) < TicksPerSecond
    /\ RefreshOK =>
        /\ last.resp.body.expires_in = 3600
        /\ IssuedWithTTL(last.resp.body.access_token, last.end, last.resp.body.expires_in)

\* C12 happens: a Login read the clock on a whole second for its access
\* token and later for its refresh token.
C12_Witness ==
    /\ LoginOK
    /\ last.at % TicksPerSecond = 0
    /\ last.end > last.at

-----------------------------------------------------------------------------

\* C14: only HS256 is accepted: a token whose header declares another
\* algorithm ("none" included) is answered 401 "Invalid refresh token." by
\* Refresh even when it is well-formed, carries the MAC of the server's key
\* and has not expired; no token is issued for it.
C14_OnlyHS256 ==
    (RefreshOfJws /\ Presented.header.alg # "HS256") =>
        /\ last.resp = InvalidRefreshToken
        /\ ~Called("User.objects.get")
        /\ last.minted = {}

\* C14 happens: a token carrying the HS512 MAC of the server's key over its
\* own header and payload, not expired, was presented.
C14_Witness ==
    /\ RefreshOfJws
    /\ Presented.header.alg = "HS512"
    /\ SignedBy(Presented, "k_server")
    /\ Presented.payload.exp * TicksPerSecond > last.at
    /\ last.resp.status = 401

-----------------------------------------------------------------------------

\* Verify, asked now, rejects t as expired.
RejectedAsExpired(t) ==
    Decode(t, now) = [ok |-> FALSE, exc |-> "ExpiredSignatureError"]

\* Every issued token is accepted by Verify at the instants before its
\* expires_at and rejected as expired at that instant and after; Refresh
\* answers a token signed by the server accordingly.
StrictExpiry ==
    /\ \A t \in issued : \A i \in Instants :
          IF t.payload.exp * TicksPerSecond > i
          THEN Decode(t, i).ok
          ELSE Decode(t, i) = [ok |-> FALSE, exc |-> "ExpiredSignatureError"]
    /\ (/\ RefreshOfJws
        /\ SignedBy(Presented, "k_server")
        /\ Presented.header.alg = "HS256") =>
            IF Presented.payload.exp * TicksPerSecond > last.at
            THEN last.resp.status = 200
            ELSE last.resp = RefreshTokenExpired

\* No step takes the clock back or makes a token that was rejected as
\* expired acceptable.
ExpiredStaysExpired ==
    /\ now' >= now
    /\ \A t \in issued : RejectedAsExpired(t) => RejectedAsExpired(t)'

\* C15: Verify accepts a correctly signed token only while expires_at > now
\* strictly: at the instant now = expires_at and at every later instant it
\* is rejected as expired, and once rejected as expired it is never accepted
\* again.
C15_StrictExpiry == [](StrictExpiry) /\ [][ExpiredStaysExpired]_vars

\* C15 happens: an issued token was presented to Refresh at the very instant
\* of its expires_at and rejected.
C15_Witness ==
    /\ RefreshOfJws
    /\ Presented \in issued
    /\ Presented.payload.exp * TicksPerSecond = last.at
    /\ last.resp = RefreshTokenExpired

-----------------------------------------------------------------------------

\* Refresh, asked at instant i with token t, would answer 200.
AcceptsAt(t, i) ==
    refresh_token_view("POST", RefreshObject(t), users, SECRET_KEY, i, i).resp.status = 200

\* Token tok, handed out at clock reading t0, is accepted by Refresh from
\* then on at every instant before its expiry.
Refreshable(tok, t0) ==
    \A i \in Instants :
        (t0 <= i /\ i < tok.payload.exp * TicksPerSecond) => AcceptsAt(tok, i)

\* C16: access and refresh tokens are interchangeable: each token of a
\* Login response and the token of a Refresh response is accepted by
\* Refresh while unexpired; the token Refresh returns expires one hour
\* (counted in whole seconds) after the refresh, not at the expiry of the
\* token presented, and is itself accepted by Refresh, so that each Refresh
\* of a chain extends the session by another hour.
C16_Interchangeable ==
    /\ \A t \in issued : t.payload.exp * TicksPerSecond > now => AcceptsAt(t, now)
    /\ LoginOK =>
        /\ Refreshable(last.resp.body.access_token, last.end)
        /\ Refreshable(last.resp.body.refresh_token, last.end)
    /\ RefreshOK =>
        /\ Refreshable(last.resp.body.access_token, last.end)
        /\ last.resp.body.access_token.payload.exp = (last.end \div TicksPerSecond) + TTL
        /\ last.resp.body.access_token.payload.exp >= Presented.payload.exp
        /\ (last.end \div TicksPerSecond) + TTL > Presented.payload.exp =>
              last.resp.body.access_token.payload.exp > Presented.payload.exp

\* C16 happens: Refresh accepted a token after another issued token of the
\* same user had expired, and returned a token that expires later still.
C16_Witness ==
    /\ RefreshOK
    /\ Presented \in issued
    /\ \E t \in issued :
          /\ t.payload.user_id = Presented.payload.user_id
          /\ t.payload.exp * TicksPerSecond <= last.at
    /\ last.resp.body.access_token.payload.exp > Presented.payload.exp

-----------------------------------------------------------------------------
(* Registration: register_user of fluffy/apps/users/views.py, handled by   *)
(* concurrent workers.  The check that the username and email are free and *)
(* the creation of the row are two steps; other requests run in between.   *)

Emails == {EmailOf(u) : u \in Usernames}

\* {"username": u, "password": p, "email": e}, a member left out when None.
RegisterObject(u, p, e) ==
    JsonObject([k \in {x \in {"username", "password", "email"} :
                          \/ (x = "username" /\ u # None)
                          \/ (x = "password" /\ p # None)
                          \/ (x = "email" /\ e # None)}
                   |-> CASE k = "username" -> u
                         [] k = "password" -> p
                         [] k = "email"    -> e])

RegisterBodies ==
    UnparsedBodies \cup
    {RegisterObject(u, p, e) :
        u \in Usernames \cup {None}, p \in {"pw1", None}, e \in Emails \cup {None}}

\* ["This field is required."] if not value else []
Required(value) == IF value = None THEN <<"This field is required.">> ELSE <<>>

\* register_user up to and including the two exists() queries: the response
\* when it ends there, or the word to go on to create_user.
register_user_check(method, body, tbl) ==
    IF method # "POST" THEN [proceed |-> FALSE, out |-> Outcome(NotAllowed, <<>>, {})]
    ELSE LET data == json_loads(body) IN
    IF data.exc = "JSONDecodeError"
    THEN [proceed |-> FALSE,
          out |-> Outcome(JsonResponse([error |-> "Invalid JSON"], 400),
                          <<"json.loads">>, {})]
    ELSE IF data.exc # ""
    THEN [proceed |-> FALSE, out |-> Outcome(ServerError(data.exc), <<"json.loads">>, {})]
    ELSE IF ~data.isdict
    THEN [proceed |-> FALSE,
          out |-> Outcome(ServerError("AttributeError"), <<"json.loads">>, {})]
    ELSE LET username == dict_get(data.dict, "username", None)
             password == dict_get(data.dict, "password", None)
             email    == dict_get(data.dict, "email", None)
         IN IF username = None \/ password = None \/ email = None
            THEN [proceed |-> FALSE,
                  out |-> Outcome(JsonResponse(
                              [error   |-> "Validation Error",
                               details |-> [username |-> Required(username),
                                            password |-> Required(password),
                                            email    |-> Required(email)]], 400),
                              <<"json.loads">>, {})]
            ELSE IF (\E r \in tbl : r.username = username)
                    \/ (\E r \in tbl : r.email = email)
            THEN [proceed |-> FALSE,
                  out |-> Outcome(JsonResponse(
                              [error   |-> "Conflict",
                               message |-> "Username or email already exists."], 409),
                              <<"json.loads", "User.objects.filter">>, {})]
            ELSE [proceed |-> TRUE]

\* User.objects.create_user(...): the new row with the next id, or
\* IntegrityError when the username is in the table (the column is
\* unique; the email column is not).
create_user(tbl, username, password, email) ==
    IF \E r \in tbl : r.username = username
    THEN [ok |-> FALSE, exc |-> "IntegrityError"]
    ELSE [ok |-> TRUE,
          user |-> [id |-> Cardinality(tbl) + 1, username |-> username,
                    password |-> password, email |-> email]]

Workers == 1..MaxInflight
FreeWorkers == Workers \ {x.w : x \in inflight}

InitReg ==
    /\ now = 0
    /\ SECRET_KEY = "k_server"
    /\ users = {}
    /\ issued = {}
    /\ last = Idle
    /\ inflight = {}

\* A worker takes a request to register_user as far as the exists() queries.
register_user_begin ==
    \E r \in Requests(RegisterBodies), w \in FreeWorkers :
        LET chk == register_user_check(r.method, r.body, users) IN
        /\ IF chk.proceed
           THEN /\ inflight' = inflight \cup
                        {[w |-> w, op |-> "register_user", method |-> r.method,
                          body |-> r.body, pc |-> "create_user"]}
                /\ last' = Idle
           ELSE /\ last' = Handled("register_user", r.method, r.body, now, now, chk.out)
                /\ UNCHANGED inflight
        /\ UNCHANGED <<now, SECRET_KEY, users, issued>>

\* The worker goes on: create_user and the 201 response.
register_user_create ==
    \E x \in inflight :
        /\ x.op = "register_user"
        /\ x.pc = "create_user"
        /\ LET created == create_user(users,
                                      dict_get(x.body.members, "username", None),
                                      dict_get(x.body.members, "password", None),
                                      dict_get(x.body.members, "email", None))
           IN IF created.ok
              THEN /\ users' = users \cup {created.user}
                   /\ last' = Handled("register_user", x.method, x.body, now, now,
                                 Outcome(JsonResponse(
                                     [message  |-> "User registered successfully",
                                      username |-> created.user.username,
                                      email    |-> created.user.email], 201),
                                     <<"json.loads", "User.objects.filter",
                                       "create_user">>, {}))
              ELSE /\ users' = users
                   /\ last' = Handled("register_user", x.method, x.body, now, now,
                                 Outcome(ServerError(created.exc),
                                     <<"json.loads", "User.objects.filter",
                                       "create_user">>, {}))
        /\ inflight' = inflight \ {x}
        /\ UNCHANGED <<now, SECRET_KEY, issued>>

NextReg == register_user_begin \/ register_user_create

SpecReg == InitReg /\ [][NextReg]_vars

\* A registration that gave all three fields has been answered.
RegisterAnswered ==
    /\ PostTo("register_user")
    /\ last.body.kind = "object"
    /\ DOMAIN last.body.members = {"username", "password", "email"}

\* C17: after any interleaving of concurrent register_user requests no two
\* accounts share a username and no two share an email, and a registration
\* whose username or email is taken is answered 409 and creates no account.
C17_Claim ==
    /\ \A r, s \in users :
          r # s => r.username # s.username /\ r.email # s.email
    /\ (/\ RegisterAnswered
        /\ last.resp.status # 201
        /\ \E r \in users : \/ r.username = last.body.members.username
                            \/ r.email = last.body.members.email) =>
            last.resp.status = 409

-----------------------------------------------------------------------------
(* The token views handled by concurrent workers.  A worker's step runs up *)
(* to its next reading of the clock and SECRET_KEY (generate_jwt and       *)
(* jwt.decode read both); other workers and the clock move in between.     *)
(* The table is read in the step of the call next to the reading.          *)

\* The worker's request with its position and what it has computed.
Working(x, pc, t1, user, token) ==
    [w |-> x.w, op |-> x.op, method |-> x.method, body |-> x.body,
     pc |-> pc, t1 |-> t1, user |-> user, token |-> token]

NoUser == [id |-> 0, username |-> None, password |-> None, email |-> None]

\* Workers take requests in turn, and each handles one request.
NextWorker == CHOOSE w \in FreeWorkers : \A v \in FreeWorkers : w <= v

\* The worker that has answered keeps nothing of its request.
Done(w) ==
    Working([w |-> w, op |-> "none", method |-> "GET", body |-> MalformedJson],
            "done", 0, NoUser, NoToken)

\* A request answered before the view reads the clock or the key.
AnswerUnread(op, r, out) ==
    /\ last' = Handled(op, r.method, r.body, now, now, out)
    /\ UNCHANGED <<now, SECRET_KEY, users, issued, inflight>>

\* A worker takes the request and stops before the call at pc.
Take(op, r, pc, user) ==
    /\ FreeWorkers # {}
    /\ inflight' = inflight \cup
            {Working([w |-> NextWorker, op |-> op, method |-> r.method, body |-> r.body],
                     pc, 0, user, NoToken)}
    /\ last' = Idle
    /\ UNCHANGED <<now, SECRET_KEY, users, issued>>

\* The worker answers: the response is recorded, the request forgotten.
Answer(x, t1, out) ==
    /\ Cardinality(issued \cup out.minted) <= MaxIssued
    /\ inflight' = (inflight \ {x}) \cup {Done(x.w)}
    /\ issued' = issued \cup out.minted
    /\ last' = Handled(x.op, x.method, x.body, t1, now, out)
    /\ UNCHANGED <<now, SECRET_KEY, users>>

\* The worker goes on to its next call.
GoOn(x, y) ==
    /\ inflight' = (inflight \ {x}) \cup {y}
    /\ last' = Idle
    /\ UNCHANGED <<now, SECRET_KEY, users, issued>>

\* Bodies sent to /token/ while other requests are handled.
ConcurrentLoginBodies ==
    {MalformedJson} \cup {LoginObject("alice", p) : p \in Passwords}

\* Bodies sent to /token/refresh/ while other requests are handled.
ConcurrentRefreshBodies ==
    {MalformedJson} \cup {RefreshObject(t) : t \in issued}

\* login up to access_token = generate_jwt(user): require_POST, json.loads,
\* the two data.get and authenticate; 405, 400 and 401 are answered here.
login_begin ==
    \E r \in Requests(ConcurrentLoginBodies) :
        LET parsed == json_loads(r.body)
            auth   == authenticate(users, dict_get(parsed.dict, "username", None),
                                   dict_get(parsed.dict, "password", None))
        IN IF r.method = "POST" /\ parsed.exc = "" /\ parsed.isdict /\ auth.found
           THEN Take("login", r, "access_token", auth.user)
           ELSE AnswerUnread("login", r,
                    login_view(r.method, r.body, users, SECRET_KEY, now, now))

\* login: access_token = generate_jwt(user) reads the clock and the key.
login_access_token ==
    \E x \in inflight :
        /\ x.op = "login" /\ x.pc = "access_token"
        /\ GoOn(x, Working(x, "refresh_token", now, x.user,
                           generate_jwt(x.user, SECRET_KEY, now)))

\* login: refresh_token = generate_jwt(user) reads them again; 200.
login_refresh_token ==
    \E x \in inflight :
        /\ x.op = "login" /\ x.pc = "refresh_token"
        /\ LET refresh == generate_jwt(x.user, SECRET_KEY, now) IN
           Answer(x, x.t1,
               Outcome(JsonResponse([access_token  |-> x.token,
                                     refresh_token |-> refresh,
                                     token_type    |-> "bearer",
                                     expires_in    |-> EXPIRES_IN], 200),
                       <<"json.loads", "authenticate", "generate_jwt", "generate_jwt">>,
                       {x.token, refresh}))

\* refresh_token up to jwt.decode: require_POST, json.loads and data.get;
\* 405 and 400 are answered here.
refresh_begin ==
    \E r \in Requests(ConcurrentRefreshBodies) :
        LET parsed == json_loads(r.body) IN
        IF r.method = "POST" /\ parsed.exc = "" /\ parsed.isdict
        THEN Take("refresh_token", r, "jwt.decode", NoUser)
        ELSE AnswerUnread("refresh_token", r,
                 refresh_token_view(r.method, r.body, users, SECRET_KEY, now, now))

\* refresh_token: jwt.decode reads the key and the clock; 401 when it raises.
refresh_decode ==
    \E x \in inflight :
        /\ x.op = "refresh_token" /\ x.pc = "jwt.decode"
        /\ LET presented == dict_get(x.body.members, "refresh_token", NoToken)
               decoded   == jwt_decode(presented, SECRET_KEY, {"HS256"}, now)
           IN IF decoded.ok
              THEN GoOn(x, Working(x, "generate_jwt", now, NoUser, presented))
              ELSE Answer(x, now, Outcome(refresh_except(decoded.exc),
                                          <<"json.loads", "jwt.decode">>, {}))

\* refresh_token: User.objects.get(id=payload["user_id"]), then
\* generate_jwt(user) reads the clock and the key; 200.
refresh_generate ==
    \E x \in inflight :
        /\ x.op = "refresh_token" /\ x.pc = "generate_jwt"
        /\ LET got == User_objects_get(users, x.token.payload.user_id)
               new_access_token == generate_jwt(got.user, SECRET_KEY, now)
           IN IF got.found
              THEN Answer(x, x.t1,
                       Outcome(JsonResponse([access_token |-> new_access_token,
                                             token_type   |-> "bearer",
                                             expires_in   |-> EXPIRES_IN], 200),
                               <<"json.loads", "jwt.decode", "User.objects.get",
                                 "generate_jwt">>,
                               {new_access_token}))
              ELSE Answer(x, x.t1,
                       Outcome(ServerError("DoesNotExist"),
                               <<"json.loads", "jwt.decode", "User.objects.get">>, {}))

NextConc ==
    \/ Tick
    \/ logout
    \/ login_begin
    \/ login_access_token
    \/ login_refresh_token
    \/ refresh_begin
    \/ refresh_decode
    \/ refresh_generate

\* Both users are registered and alice has logged in once, at the start.
InitConc ==
    /\ now = 0
    /\ SECRET_KEY = "k_server"
    /\ users = {r \in UserRows : <<r.id, r.username, r.password>> \in
                    {<<1, "alice", "pw1">>, <<2, "bob", "pw2">>}}
    /\ issued = {generate_jwt(u, SECRET_KEY, now) : u \in {r \in users : r.id = 1}}
    /\ last = Idle
    /\ inflight = {}

SpecConc == InitConc /\ [][NextConc]_vars

-----------------------------------------------------------------------------
(* C13 *)

\* The response the view gives to the recorded request when nothing else runs:
\* the same clock readings, the same table, the key of startup.
RanAlone ==
    CASE last.op = "login" ->
            login_view(last.method, last.body, users, "k_server", last.at, last.end)
      [] last.op = "refresh_token" ->
            refresh_token_view(last.method, last.body, users, "k_server", last.at, last.end)
      [] last.op = "logout" -> logout_view(last.method, last.body)

\* No step of the three views writes the key or the table.
WritesNothing == SECRET_KEY' = SECRET_KEY /\ users' = users

\* C13: under any interleaving of workers handling Login, Logout and Refresh,
\* the response of each request is the response the view gives alone at the
\* same clock readings against the same table, and no step writes SECRET_KEY
\* or the table.
C13_Independent ==
    /\ [](last.op \in {"login", "logout", "refresh_token"} => last.resp = RanAlone.resp)
    /\ [][WritesNothing]_vars

\* A login answered 200 after the clock moved between its two readings and
\* while a refresh that decoded its token was still at work.
C13_Witness ==
    /\ LoginOK
    /\ last.end > last.at
    /\ \E x \in inflight : x.op = "refresh_token" /\ x.pc = "generate_jwt"

====
